---- MODULE Spec2Model ----
(***************************************************************************)
(* Ownership semantics of the buffer-owning value types of                 *)
(* ferric::foundation: ResourceManager (constructor_rules.cc) and          *)
(* LargeBuffer (move_semantics.cc).  Objects live in slots, element        *)
(* buffers live on a heap of addresses handed out by new[] and returned    *)
(* by delete[].  The program compares objects and pointers for identity    *)
(* only, so a new object takes the lowest unused slot and new[] returns    *)
(* the lowest free address.                                                *)
(***************************************************************************)
EXTENDS Integers, Sequences, FiniteSets, TLC

\* ---- bounds ----
NSlots == 2        \* objects that can be alive at a time
MaxCount == 2      \* counted operations explored between two resets
MaxLen == 2        \* length of the buffers created

\* ---- program constants ----
ScenarioLen == 100 \* LargeBuffer buf1(100), ResourceManager r1(100)
FillValue == 42    \* buf.fill(42)
CopyFill == 100    \* buf.fill(100)
MoveFill == 200    \* buf.fill(200)
SharedId == 42     \* create_shared_resource(42)
LocalId == 123     \* Resource r(123)

Slots == 1..NSlots
Addr == 1..NSlots
\* a scenario of three constructions has room for all three objects at once
ScenarioSlots == 1..(NSlots + 1)
\* the references to shared resources that can be alive at a time
SharedSlots == 1..(NSlots + 1)
nullptr == 0
Lens == {0, MaxLen}
ScenarioLens == {0, ScenarioLen}
Values == {0, FillValue}

VARIABLES
  kind,                    \* the class this run works with: "RM", "LB", "MO", "FG", "SP"
  objs,                    \* slot -> object: class and data members
  allocated,               \* addresses handed out by new / resources currently acquired
  mem,                     \* address -> the elements (the Resource fields) stored there
  default_constructions_,  \* ResourceManager statistics
  copy_constructions_,
  move_constructions_,
  destructions_,
  copy_count_,             \* LargeBuffer counters
  move_count_,
  instance_count_,         \* Resource::instance_count_
  use_count,               \* address -> owners recorded in the shared_ptr control block
  fault,                   \* "none", or the undefined behaviour that occurred
  last,                    \* the operation just performed
  script                   \* the operations since the last reset (scenario runs)

vars == <<kind, objs, allocated, mem, default_constructions_, copy_constructions_,
          move_constructions_, destructions_, copy_count_, move_count_,
          instance_count_, use_count, fault, last, script>>

rmStats == <<default_constructions_, copy_constructions_,
             move_constructions_, destructions_>>
lbStats == <<copy_count_, move_count_>>
shared == <<instance_count_, use_count>>

\* operations counted since the last reset
RMCounted == default_constructions_ + copy_constructions_
               + move_constructions_ + destructions_
LBCounted == copy_count_ + move_count_

Min(S) == CHOOSE x \in S : \A y \in S : x <= y

\* ---- objects ----
NoObject == [cls |-> "none", data_ |-> nullptr, size_ |-> 0]
Object(c, d, n) == [cls |-> c, data_ |-> d, size_ |-> n]
IsRM(s) == objs[s].cls = "RM"
IsLB(s) == objs[s].cls = "LB"
IsDead(s) == objs[s].cls = "none"
Live == {s \in DOMAIN objs : ~IsDead(s)}

\* the slot a newly constructed object takes
IsNewSlot(s) == IsDead(s) /\ \A r \in DOMAIN objs : r < s => ~IsDead(r)

\* accessors
size(s) == objs[s].size_
data(s) == objs[s].data_
is_valid(s) == objs[s].data_ # nullptr

\* ---- heap ----
\* new int[n] with the buffers in al handed out: the address returned
NewAddr(al) == Min(DOMAIN mem \ al)
CanNew(al) == DOMAIN mem \ al # {}

\* the new buffer keeps what the allocator left in it
ZerosSkipped(n) == [i \in 1..n |-> FillValue]

\* std::fill(data_, data_ + size_, 0) / the zeroing loop
Zeros(n) == [i \in 1..n |-> 0]

\* the copy stops one element short
CopyElemsShort(src, n) == [i \in 1..n |-> IF i < n THEN src[i] ELSE 0]

\* std::copy(other.data_, other.data_ + n, data_) / the copying loop
CopyElems(src, n) == [i \in 1..n |-> src[i]]

\* for (i < size_) data_[i] = value
Filled(n, v) == [i \in 1..n |-> v]

\* the values new int[n] leaves in the buffer before anything is stored:
\* any values, here one for the first element and one for the rest
Uninit(n) == { [i \in 1..n |-> IF i = 1 THEN u ELSE t] : u, t \in Values }

\* delete[] p: no effect on nullptr, gives a live buffer back, undefined otherwise
AfterDelete(al, p) == IF p = nullptr THEN al ELSE al \ {p}
DeleteFault(al, p) == IF p # nullptr /\ p \notin al THEN "double_free" ELSE fault
Scrub(m, p) == IF p \in DOMAIN m THEN [m EXCEPT ![p] = <<>>] ELSE m
\* how many buffers delete[] p gives back
Freed(p) == IF p = nullptr THEN 0 ELSE 1

\* the operation just performed: its name, whether its source and destination
\* were one object, the length it was asked for, the buffers it gave back
Op(name, d, s, n, fr) ==
  [op |-> name, self |-> (d = s /\ d # 0), n |-> n, freed |-> fr]

\* a move's source shares its buffer with the destination until destroyed
MovedFromKeepsData(ob) == ob

\* a move's source keeps reporting its old length
MovedFromKeepsSize(ob) == Object(ob.cls, nullptr, ob.size_)

\* the state a move leaves its source ob in: data_ = nullptr, size_ = 0
MovedFrom(ob) == Object(ob.cls, nullptr, 0)

\* no object constructed yet, in a program with room for the objects of S
\* and with the addresses of A to allocate from
InitOver(S, A) ==
  /\ kind \in {"RM", "LB", "MO", "FG", "SP"}
  /\ script = <<>>
  /\ objs = [s \in S |-> NoObject]
  /\ allocated = {}
  /\ mem = [a \in A |-> <<>>]
  /\ default_constructions_ = 0
  /\ copy_constructions_ = 0
  /\ move_constructions_ = 0
  /\ destructions_ = 0
  /\ copy_count_ = 0
  /\ move_count_ = 0
  /\ instance_count_ = 0
  /\ use_count = [a \in A |-> 0]
  /\ fault = "none"
  /\ last = Op("init", 0, 0, 0, 0)

InitWith(S) == InitOver(S, S)

Init == InitWith(Slots) /\ kind \in {"RM", "LB", "MO", "FG"}

\* ---- ResourceManager ----

\* ++default_constructions_
CountDefault ==
  /\ default_constructions_' = default_constructions_ + 1
  /\ UNCHANGED <<copy_constructions_, move_constructions_, destructions_>>

\* the copy constructor leaves the statistics alone
CountCopyForgotten == UNCHANGED rmStats

\* ++copy_constructions_
CountCopy ==
  /\ copy_constructions_' = copy_constructions_ + 1
  /\ UNCHANGED <<default_constructions_, move_constructions_, destructions_>>

\* ++move_constructions_
CountMove ==
  /\ move_constructions_' = move_constructions_ + 1
  /\ UNCHANGED <<default_constructions_, copy_constructions_, destructions_>>

\* ++destructions_
CountDestruction ==
  /\ destructions_' = destructions_ + 1
  /\ UNCHANGED <<default_constructions_, copy_constructions_, move_constructions_>>

\* ResourceManager::ResourceManager()
RMDefaultCtor(s) ==
  /\ kind = "RM" /\ IsNewSlot(s)
  /\ objs' = [objs EXCEPT ![s] = Object("RM", nullptr, 0)]
  /\ CountDefault
  /\ last' = Op("create", s, 0, 0, 0)
  /\ UNCHANGED <<allocated, mem, lbStats, fault>>

\* ResourceManager::ResourceManager(size_t size)
RMSizeCtor(s, n) ==
  /\ kind = "RM" /\ IsNewSlot(s)
  /\ IF n > 0
       THEN /\ CanNew(allocated)
            /\ LET a == NewAddr(allocated)
               IN /\ objs' = [objs EXCEPT ![s] = Object("RM", a, n)]
                  /\ allocated' = allocated \cup {a}
                  /\ mem' = [mem EXCEPT ![a] = Zeros(n)]
                  /\ last' = Op("create", s, 0, n, 0)
       ELSE /\ objs' = [objs EXCEPT ![s] = Object("RM", nullptr, n)]
            /\ last' = Op("create", s, 0, 0, 0)
            /\ UNCHANGED <<allocated, mem>>
  /\ CountDefault
  /\ UNCHANGED <<lbStats, fault>>

\* a destructor that counts itself only when it releases a buffer
RMDtorCountsBuffers(s) ==
  /\ IsRM(s)
  /\ allocated' = AfterDelete(allocated, data(s))
  /\ fault' = DeleteFault(allocated, data(s))
  /\ mem' = Scrub(mem, data(s))
  /\ IF data(s) # nullptr THEN CountDestruction ELSE UNCHANGED rmStats
  /\ objs' = [objs EXCEPT ![s] = NoObject]
  /\ last' = Op("release", s, 0, 0, Freed(data(s)))
  /\ UNCHANGED lbStats

\* ResourceManager::~ResourceManager()
RMDtor(s) ==
  /\ IsRM(s)
  /\ allocated' = AfterDelete(allocated, data(s))
  /\ fault' = DeleteFault(allocated, data(s))
  /\ mem' = Scrub(mem, data(s))
  /\ CountDestruction
  /\ objs' = [objs EXCEPT ![s] = NoObject]
  /\ last' = Op("release", s, 0, 0, Freed(data(s)))
  /\ UNCHANGED lbStats

\* a copy constructor that copies the pointer, not the elements
RMCopyCtorShallow(d, o) ==
  /\ IsNewSlot(d) /\ IsRM(o)
  /\ objs' = [objs EXCEPT ![d] = Object("RM", data(o), size(o))]
  /\ CountCopy
  /\ last' = Op("duplicate", d, o, 0, 0)
  /\ UNCHANGED <<allocated, mem, lbStats, fault>>

\* ResourceManager::ResourceManager(const ResourceManager& other)
RMCopyCtor(d, o) ==
  /\ IsNewSlot(d) /\ IsRM(o)
  /\ IF size(o) > 0
       THEN /\ CanNew(allocated)
            /\ LET a == NewAddr(allocated)
               IN /\ objs' = [objs EXCEPT ![d] = Object("RM", a, size(o))]
                  /\ allocated' = allocated \cup {a}
                  /\ IF data(o) \in allocated /\ Len(mem[data(o)]) >= size(o)
                       THEN mem' = [mem EXCEPT ![a] = CopyElems(mem[data(o)], size(o))]
                       ELSE \E c \in Uninit(size(o)) : mem' = [mem EXCEPT ![a] = c]
                  /\ fault' = IF data(o) # nullptr /\ data(o) \notin allocated
                                THEN "indeterminate_read" ELSE fault
                  /\ last' = Op("duplicate", d, o, 0, 0)
       ELSE /\ objs' = [objs EXCEPT ![d] = Object("RM", nullptr, size(o))]
            /\ last' = Op("duplicate", d, o, 0, 0)
            /\ UNCHANGED <<allocated, mem, fault>>
  /\ CountCopy
  /\ UNCHANGED lbStats

\* a self-assignment: the guard is false and only *this is returned
SelfAssign(name, d) ==
  /\ last' = Op(name, d, d, 0, 0)
  /\ UNCHANGED <<objs, allocated, mem, rmStats, lbStats, fault>>

\* body of ResourceManager::operator=(const ResourceManager&) inside the guard;
\* other is read through the reference after *this has been written
RMCopyAssignBody(d, o) ==
  LET al1 == AfterDelete(allocated, data(d))
      m1 == Scrub(mem, data(d))
      n == size(o)
  IN /\ IF n > 0
          THEN /\ CanNew(al1)
               /\ LET a == NewAddr(al1)
                      od == [objs EXCEPT ![d] = Object("RM", a, n)][o].data_
                  IN /\ objs' = [objs EXCEPT ![d] = Object("RM", a, n)]
                     /\ allocated' = al1 \cup {a}
                     /\ IF od = nullptr \/ od = a \/ od \notin al1 \/ Len(m1[od]) < n
                          THEN \E c \in Uninit(n) : mem' = [m1 EXCEPT ![a] = c]
                          ELSE mem' = [m1 EXCEPT ![a] = CopyElems(m1[od], n)]
                     /\ fault' = IF od # nullptr /\ (od = a \/ od \notin al1)
                                   THEN "indeterminate_read"
                                   ELSE DeleteFault(allocated, data(d))
                     /\ last' = Op("assign_duplicate", d, o, 0, Freed(data(d)))
          ELSE /\ objs' = [objs EXCEPT ![d] = Object("RM", nullptr, n)]
               /\ allocated' = al1
               /\ mem' = m1
               /\ fault' = DeleteFault(allocated, data(d))
               /\ last' = Op("assign_duplicate", d, o, 0, Freed(data(d)))
     /\ UNCHANGED <<rmStats, lbStats>>

\* ResourceManager& ResourceManager::operator=(const ResourceManager& other)
RMCopyAssign(d, o) ==
  /\ IsRM(d) /\ IsRM(o)
  /\ IF d # o THEN RMCopyAssignBody(d, o)
              ELSE SelfAssign("assign_duplicate", d)

\* ResourceManager::ResourceManager(ResourceManager&& other)
RMMoveCtor(d, o) ==
  /\ IsNewSlot(d) /\ IsRM(o)
  /\ objs' = [objs EXCEPT ![d] = Object("RM", data(o), size(o)),
                          ![o] = MovedFrom(objs[o])]
  /\ CountMove
  /\ last' = Op("transfer", d, o, 0, 0)
  /\ UNCHANGED <<allocated, mem, lbStats, fault>>

\* a move assignment that overwrites data_ without delete[]
RMMoveAssignLeaks(d, o) ==
  /\ objs' = [objs EXCEPT ![d] = Object("RM", data(o), size(o)),
                          ![o] = MovedFrom(objs[o])]
  /\ last' = Op("assign_transfer", d, o, 0, 0)
  /\ UNCHANGED <<allocated, mem, fault, rmStats, lbStats>>

\* a move assignment that counts itself as a move construction
RMMoveAssignCounts(d, o) ==
  /\ allocated' = AfterDelete(allocated, data(d))
  /\ fault' = DeleteFault(allocated, data(d))
  /\ mem' = Scrub(mem, data(d))
  /\ objs' = [objs EXCEPT ![d] = Object("RM", data(o), size(o)),
                          ![o] = MovedFrom(objs[o])]
  /\ last' = Op("assign_transfer", d, o, 0, Freed(data(d)))
  /\ CountMove
  /\ UNCHANGED lbStats

\* body of ResourceManager::operator=(ResourceManager&&) inside the guard:
\* the writes to other come after those to *this
RMMoveAssignBody(d, o) ==
  /\ allocated' = AfterDelete(allocated, data(d))
  /\ fault' = DeleteFault(allocated, data(d))
  /\ mem' = Scrub(mem, data(d))
  /\ objs' = [objs EXCEPT ![d] = Object("RM", data(o), size(o)),
                          ![o] = MovedFrom(objs[o])]
  /\ last' = Op("assign_transfer", d, o, 0, Freed(data(d)))
  /\ UNCHANGED <<rmStats, lbStats>>

\* a move assignment without the self-assignment guard
RMMoveAssignNoGuard(d, o) ==
  /\ IsRM(d) /\ IsRM(o)
  /\ RMMoveAssignBody(d, o)

\* ResourceManager& ResourceManager::operator=(ResourceManager&& other)
RMMoveAssign(d, o) ==
  /\ IsRM(d) /\ IsRM(o)
  /\ IF d # o THEN RMMoveAssignBody(d, o)
              ELSE SelfAssign("assign_transfer", d)

\* a reset that forgets the destruction counter
reset_statsForgetsOne ==
  /\ default_constructions_' = 0
  /\ copy_constructions_' = 0
  /\ move_constructions_' = 0
  /\ last' = Op("reset", 0, 0, 0, 0)
  /\ UNCHANGED <<destructions_, objs, allocated, mem, lbStats, fault>>

\* ResourceManager::reset_stats()
reset_stats ==
  /\ default_constructions_' = 0
  /\ copy_constructions_' = 0
  /\ move_constructions_' = 0
  /\ destructions_' = 0
  /\ last' = Op("reset", 0, 0, 0, 0)
  /\ UNCHANGED <<objs, allocated, mem, lbStats, fault>>

\* a caller storing through the pointer data() returns: r.data()[0] = v
RMWrite(s, v) ==
  /\ IsRM(s) /\ is_valid(s)
  /\ size(s) > 0
  /\ IF data(s) \in allocated /\ Len(mem[data(s)]) >= 1
       THEN /\ mem' = [mem EXCEPT ![data(s)][1] = v]
            /\ UNCHANGED fault
       ELSE /\ fault' = "write_after_free"
            /\ UNCHANGED mem
  /\ last' = Op("write", s, 0, 0, 0)
  /\ UNCHANGED <<objs, allocated, rmStats, lbStats>>

\* a call on the class in use leaves the kind of run and the scenario log alone
Keep == UNCHANGED <<kind, script, shared>>

NextRM ==
  \/ RMCounted < MaxCount /\ \E s \in Slots : RMDefaultCtor(s) /\ Keep
  \/ RMCounted < MaxCount /\ \E s \in Slots, n \in Lens : RMSizeCtor(s, n) /\ Keep
  \/ RMCounted < MaxCount /\ \E s \in Slots : RMDtor(s) /\ Keep
  \/ RMCounted < MaxCount /\ \E d, o \in Slots : RMCopyCtor(d, o) /\ Keep
  \/ \E d, o \in Slots : RMCopyAssign(d, o) /\ Keep
  \/ RMCounted < MaxCount /\ \E d, o \in Slots : RMMoveCtor(d, o) /\ Keep
  \/ \E d, o \in Slots : RMMoveAssign(d, o) /\ Keep
  \/ kind \in {"RM", "LB"} /\ reset_stats /\ Keep
  \/ \E s \in Slots, v \in Values : RMWrite(s, v) /\ Keep

\* the ResourceManager objects constructed since the last reset
Constructed == default_constructions_ + copy_constructions_ + move_constructions_

\* the calls on ResourceManager from a state without instances on, with
\* reset_stats called only while no instance is alive (as main does before
\* its examples)
NextStats ==
  \/ Constructed <= MaxCount /\ \E s \in Slots : RMDefaultCtor(s) /\ Keep
  \/ Constructed <= MaxCount /\ \E s \in Slots, n \in Lens : RMSizeCtor(s, n) /\ Keep
  \/ Constructed <= MaxCount /\ \E d, o \in Slots : RMCopyCtor(d, o) /\ Keep
  \/ Constructed <= MaxCount /\ \E d, o \in Slots : RMMoveCtor(d, o) /\ Keep
  \/ \E d, o \in Slots : RMCopyAssign(d, o) /\ Keep
  \/ \E d, o \in Slots : RMMoveAssign(d, o) /\ Keep
  \/ \E s \in Slots : RMDtor(s) /\ Keep
  \/ Live = {} /\ reset_stats /\ Keep

InitStats == InitWith(Slots) /\ kind = "RM"

SpecStats == InitStats /\ [][NextStats]_vars

\* ---- LargeBuffer ----

\* LargeBuffer::LargeBuffer(size_t size)
LBCtor(s, n) ==
  /\ kind = "LB" /\ IsNewSlot(s)
  /\ CanNew(allocated)
  /\ LET a == NewAddr(allocated)
     IN /\ objs' = [objs EXCEPT ![s] = Object("LB", a, n)]
        /\ allocated' = allocated \cup {a}
        /\ mem' = [mem EXCEPT ![a] = Zeros(n)]
  /\ last' = Op("create", s, 0, n, 0)
  /\ UNCHANGED <<rmStats, lbStats, fault>>

\* the loop data_[i] = other.data_[i] for i < n, reading the buffer at od:
\* the elements stored, and whether a read went outside a live buffer
LoopCopy(m, al, od, n) ==
  IF n = 0 THEN {<<>>}
  ELSE IF od \in al /\ Len(m[od]) >= n THEN {CopyElems(m[od], n)}
  ELSE Uninit(n)
LoopFault(m, al, od, n) ==
  IF n = 0 \/ (od \in al /\ Len(m[od]) >= n) THEN "none"
  ELSE IF od = nullptr THEN "null_read" ELSE "indeterminate_read"
Worse(f, g) == IF f # "none" THEN f ELSE g

\* LargeBuffer::LargeBuffer(const LargeBuffer& other)
LBCopyCtor(d, o) ==
  /\ IsNewSlot(d) /\ IsLB(o)
  /\ CanNew(allocated)
  /\ LET a == NewAddr(allocated)
     IN /\ objs' = [objs EXCEPT ![d] = Object("LB", a, size(o))]
        /\ allocated' = allocated \cup {a}
        /\ \E c \in LoopCopy(mem, allocated, data(o), size(o)) :
             mem' = [mem EXCEPT ![a] = c]
        /\ fault' = Worse(fault, LoopFault(mem, allocated, data(o), size(o)))
  /\ copy_count_' = copy_count_ + 1
  /\ last' = Op("duplicate", d, o, 0, 0)
  /\ UNCHANGED <<rmStats, move_count_>>

\* body of LargeBuffer::operator=(const LargeBuffer&) inside the guard;
\* other is read through the reference after *this has been written
LBCopyAssignBody(d, o) ==
  LET al1 == AfterDelete(allocated, data(d))
      m1 == Scrub(mem, data(d))
      n == size(o)
  IN /\ CanNew(al1)
     /\ LET a == NewAddr(al1)
            od == [objs EXCEPT ![d] = Object("LB", a, n)][o].data_
        IN /\ objs' = [objs EXCEPT ![d] = Object("LB", a, n)]
           /\ allocated' = al1 \cup {a}
           /\ \E c \in LoopCopy(m1, al1, od, n) : mem' = [m1 EXCEPT ![a] = c]
           /\ fault' = Worse(DeleteFault(allocated, data(d)),
                             LoopFault(m1, al1, od, n))
     /\ copy_count_' = copy_count_ + 1
     /\ last' = Op("assign_duplicate", d, o, 0, Freed(data(d)))
     /\ UNCHANGED <<rmStats, move_count_>>

\* LargeBuffer& LargeBuffer::operator=(const LargeBuffer& other)
LBCopyAssign(d, o) ==
  /\ IsLB(d) /\ IsLB(o)
  /\ IF d # o THEN LBCopyAssignBody(d, o)
              ELSE SelfAssign("assign_duplicate", d)

\* LargeBuffer::LargeBuffer(LargeBuffer&& other)
LBMoveCtor(d, o) ==
  /\ IsNewSlot(d) /\ IsLB(o)
  /\ objs' = [objs EXCEPT ![d] = Object("LB", data(o), size(o)),
                          ![o] = MovedFrom(objs[o])]
  /\ move_count_' = move_count_ + 1
  /\ last' = Op("transfer", d, o, 0, 0)
  /\ UNCHANGED <<allocated, mem, rmStats, copy_count_, fault>>

\* body of LargeBuffer::operator=(LargeBuffer&&) inside the guard
LBMoveAssignBody(d, o) ==
  /\ allocated' = AfterDelete(allocated, data(d))
  /\ fault' = DeleteFault(allocated, data(d))
  /\ mem' = Scrub(mem, data(d))
  /\ objs' = [objs EXCEPT ![d] = Object("LB", data(o), size(o)),
                          ![o] = MovedFrom(objs[o])]
  /\ move_count_' = move_count_ + 1
  /\ last' = Op("assign_transfer", d, o, 0, Freed(data(d)))
  /\ UNCHANGED <<rmStats, copy_count_>>

\* LargeBuffer& LargeBuffer::operator=(LargeBuffer&& other)
LBMoveAssign(d, o) ==
  /\ IsLB(d) /\ IsLB(o)
  /\ IF d # o THEN LBMoveAssignBody(d, o)
              ELSE SelfAssign("assign_transfer", d)

\* a destructor that takes a copy off the counter again
LBDtorUncounts(s) ==
  /\ IsLB(s)
  /\ allocated' = AfterDelete(allocated, data(s))
  /\ fault' = DeleteFault(allocated, data(s))
  /\ mem' = Scrub(mem, data(s))
  /\ objs' = [objs EXCEPT ![s] = NoObject]
  /\ copy_count_' = IF copy_count_ > 0 THEN copy_count_ - 1 ELSE 0
  /\ last' = Op("release", s, 0, 0, Freed(data(s)))
  /\ UNCHANGED <<rmStats, move_count_>>

\* LargeBuffer::~LargeBuffer()
LBDtor(s) ==
  /\ IsLB(s)
  /\ allocated' = AfterDelete(allocated, data(s))
  /\ fault' = DeleteFault(allocated, data(s))
  /\ mem' = Scrub(mem, data(s))
  /\ objs' = [objs EXCEPT ![s] = NoObject]
  /\ last' = Op("release", s, 0, 0, Freed(data(s)))
  /\ UNCHANGED <<rmStats, lbStats>>

\* a fill that stores the first element before it tests the length
fillFirstUntested(s, v) ==
  /\ IsLB(s)
  /\ IF data(s) \in allocated /\ size(s) > 0
       THEN /\ mem' = [mem EXCEPT ![data(s)] = Filled(size(s), v)]
            /\ UNCHANGED fault
       ELSE /\ fault' = IF data(s) = nullptr THEN "null_write"
                        ELSE IF data(s) \in allocated THEN "write_past_end"
                        ELSE "write_after_free"
            /\ UNCHANGED mem
  /\ last' = Op("fill", s, 0, 0, 0)
  /\ UNCHANGED <<objs, allocated, rmStats, lbStats>>

\* LargeBuffer::fill(int value)
fill(s, v) ==
  /\ IsLB(s)
  /\ IF size(s) = 0
       THEN UNCHANGED <<mem, fault>>
       ELSE IF data(s) \in allocated
              THEN /\ mem' = [mem EXCEPT ![data(s)] = Filled(size(s), v)]
                   /\ UNCHANGED fault
              ELSE /\ fault' = IF data(s) = nullptr THEN "null_write"
                                                    ELSE "write_after_free"
                   /\ UNCHANGED mem
  /\ last' = Op("fill", s, 0, 0, 0)
  /\ UNCHANGED <<objs, allocated, rmStats, lbStats>>

\* LargeBuffer::reset_counts()
reset_counts ==
  /\ copy_count_' = 0
  /\ move_count_' = 0
  /\ last' = Op("reset", 0, 0, 0, 0)
  /\ UNCHANGED <<objs, allocated, mem, rmStats, fault>>

\* a process_copy whose parameter is a reference to the caller's buffer
process_copyByReference(d, o) ==
  /\ IsNewSlot(d) /\ IsLB(o)
  /\ objs' = [objs EXCEPT ![d] = Object("LB", data(o), size(o)),
                          ![o] = MovedFrom(objs[o])]
  /\ mem' = IF size(o) > 0 /\ data(o) \in allocated
              THEN [mem EXCEPT ![data(o)] = Filled(size(o), CopyFill)]
              ELSE mem
  /\ move_count_' = move_count_ + 1
  /\ last' = Op("process_copy", d, o, size(o), 0)
  /\ UNCHANGED <<allocated, rmStats, copy_count_, fault>>

\* process_copy(buf) called with the caller's buffer o: the parameter is a
\* copy of o, it is filled, moved into the result and destroyed empty
process_copy(d, o) ==
  /\ IsNewSlot(d) /\ IsLB(o)
  /\ CanNew(allocated)
  /\ LET a == NewAddr(allocated)
     IN /\ objs' = [objs EXCEPT ![d] = Object("LB", a, size(o))]
        /\ allocated' = allocated \cup {a}
        /\ mem' = [mem EXCEPT ![a] = Filled(size(o), CopyFill)]
        /\ fault' = Worse(fault, LoopFault(mem, allocated, data(o), size(o)))
  /\ copy_count_' = copy_count_ + 1
  /\ move_count_' = move_count_ + 1
  /\ last' = Op("process_copy", d, o, size(o), 0)
  /\ UNCHANGED rmStats

\* process_move(std::move(o)): the caller's buffer is filled through the
\* reference and moved into the result
process_move(d, o) ==
  /\ IsNewSlot(d) /\ IsLB(o)
  /\ objs' = [objs EXCEPT ![d] = Object("LB", data(o), size(o)),
                          ![o] = MovedFrom(objs[o])]
  /\ IF size(o) = 0
       THEN UNCHANGED <<mem, fault>>
       ELSE IF data(o) \in allocated
              THEN /\ mem' = [mem EXCEPT ![data(o)] = Filled(size(o), MoveFill)]
                   /\ UNCHANGED fault
              ELSE /\ fault' = IF data(o) = nullptr THEN "null_write"
                                                    ELSE "write_after_free"
                   /\ UNCHANGED mem
  /\ move_count_' = move_count_ + 1
  /\ last' = Op("process_move", d, o, size(o), 0)
  /\ UNCHANGED <<allocated, rmStats, copy_count_>>

NextLB ==
  \/ \E s \in Slots, n \in Lens : LBCtor(s, n) /\ Keep
  \/ LBCounted < MaxCount /\ \E d, o \in Slots : LBCopyCtor(d, o) /\ Keep
  \/ LBCounted < MaxCount /\ \E d, o \in Slots : LBCopyAssign(d, o) /\ Keep
  \/ LBCounted < MaxCount /\ \E d, o \in Slots : LBMoveCtor(d, o) /\ Keep
  \/ LBCounted < MaxCount /\ \E d, o \in Slots : LBMoveAssign(d, o) /\ Keep
  \/ \E s \in Slots : LBDtor(s) /\ Keep
  \/ \E s \in Slots, v \in Values : fill(s, v) /\ Keep
  \/ LBCounted < MaxCount /\ \E d, o \in Slots : process_copy(d, o) /\ Keep
  \/ LBCounted < MaxCount /\ \E d, o \in Slots : process_move(d, o) /\ Keep
  \/ kind \in {"RM", "LB"} /\ reset_counts /\ Keep

\* every operation of the two classes, in any order
\* ---- MoveOnlyResource and FileGuard ----
\* A handle stands for one acquisition (acq) of a named resource; allocated
\* holds the acquisitions that have not been given back.

Names == {"file1.txt", "file2.txt"}

Handle(c, nm, v, a) == [cls |-> c, name_ |-> nm, valid_ |-> v, acq |-> a]
IsMO(s) == objs[s].cls = "MO"
IsFG(s) == objs[s].cls = "FG"
IsHandle(s) == IsMO(s) \/ IsFG(s)

\* MoveOnlyResource::name / FileGuard::filename
filename(s) == objs[s].name_
\* MoveOnlyResource::is_valid / FileGuard::is_open
is_open(s) == objs[s].valid_

\* a std::string that has been moved from holds an unspecified value
MovedString(nm) == {"", nm}

\* the source of a move keeps its flag
MovedFromHandleKeepsFlag(h, nm) == [h EXCEPT !.name_ = nm]

\* the source of a move: other.valid_ = false, name_ moved out of
MovedFromHandle(h, nm) == [h EXCEPT !.valid_ = FALSE, !.name_ = nm]

\* the resource is given back without looking at the flag
AfterEndUnchecked(al, h) == al \ {h.acq}

\* the end of a handle's validity (FileGuard::close, valid_ = false): how many
\* resources are given back, what is still held afterwards, and whether the
\* resource had been given back before
Ends(h) == IF h.valid_ THEN 1 ELSE 0
AfterEnd(al, h) == IF h.valid_ THEN al \ {h.acq} ELSE al
EndFault(al, h) == IF h.valid_ /\ h.acq \notin al THEN "double_release" ELSE fault

\* MoveOnlyResource::MoveOnlyResource(const std::string& name)
MOCtor(s, nm) ==
  /\ kind = "MO" /\ IsNewSlot(s)
  /\ CanNew(allocated)
  /\ objs' = [objs EXCEPT ![s] = Handle("MO", nm, TRUE, NewAddr(allocated))]
  /\ allocated' = allocated \cup {NewAddr(allocated)}
  /\ last' = Op("acquire", s, 0, 0, 0)
  /\ UNCHANGED <<mem, rmStats, lbStats, fault>>

\* MoveOnlyResource::~MoveOnlyResource
MODtor(s) ==
  /\ IsMO(s)
  /\ allocated' = AfterEnd(allocated, objs[s])
  /\ fault' = EndFault(allocated, objs[s])
  /\ objs' = [objs EXCEPT ![s] = NoObject]
  /\ last' = Op("release", s, 0, 0, Ends(objs[s]))
  /\ UNCHANGED <<mem, rmStats, lbStats>>

\* a move constructor that makes its object valid whatever the source is
MOMoveCtorValidates(d, o) ==
  /\ IsNewSlot(d) /\ IsMO(o)
  /\ \E nm \in MovedString(filename(o)) :
       objs' = [objs EXCEPT ![d] = Handle("MO", filename(o), TRUE, objs[o].acq),
                            ![o] = MovedFromHandle(objs[o], nm)]
  /\ last' = Op("transfer", d, o, 0, 0)
  /\ UNCHANGED <<allocated, mem, rmStats, lbStats, fault>>

\* MoveOnlyResource::MoveOnlyResource(MoveOnlyResource&& other)
MOMoveCtor(d, o) ==
  /\ IsNewSlot(d) /\ IsMO(o)
  /\ \E nm \in MovedString(filename(o)) :
       objs' = [objs EXCEPT ![d] = Handle("MO", filename(o), is_open(o), objs[o].acq),
                            ![o] = MovedFromHandle(objs[o], nm)]
  /\ last' = Op("transfer", d, o, 0, 0)
  /\ UNCHANGED <<allocated, mem, rmStats, lbStats, fault>>

\* body of MoveOnlyResource::operator=(MoveOnlyResource&&) inside the guard;
\* the acquisition *this stood for ends when valid_ is overwritten
MOMoveAssignBody(d, o) ==
  /\ \E nm \in MovedString(filename(o)) :
       objs' = [objs EXCEPT ![d] = Handle("MO", filename(o), is_open(o), objs[o].acq),
                            ![o] = MovedFromHandle(objs[o], nm)]
  /\ allocated' = AfterEnd(allocated, objs[d])
  /\ fault' = EndFault(allocated, objs[d])
  /\ last' = Op("assign_transfer", d, o, 0, Ends(objs[d]))
  /\ UNCHANGED <<mem, rmStats, lbStats>>

\* MoveOnlyResource& MoveOnlyResource::operator=(MoveOnlyResource&& other)
MOMoveAssign(d, o) ==
  /\ IsMO(d) /\ IsMO(o)
  /\ IF d # o THEN MOMoveAssignBody(d, o)
               ELSE SelfAssign("assign_transfer", d)

NextMO ==
  \/ \E s \in Slots, nm \in Names : MOCtor(s, nm) /\ Keep
  \/ \E s \in Slots : MODtor(s) /\ Keep
  \/ \E d, o \in Slots : MOMoveCtor(d, o) /\ Keep
  \/ \E d, o \in Slots : MOMoveAssign(d, o) /\ Keep

\* FileGuard::FileGuard(const std::string& filename)
FGCtor(s, nm) ==
  /\ kind = "FG" /\ IsNewSlot(s)
  /\ CanNew(allocated)
  /\ objs' = [objs EXCEPT ![s] = Handle("FG", nm, TRUE, NewAddr(allocated))]
  /\ allocated' = allocated \cup {NewAddr(allocated)}
  /\ last' = Op("acquire", s, 0, 0, 0)
  /\ UNCHANGED <<mem, rmStats, lbStats, fault>>

\* FileGuard::~FileGuard: close(), then the object is gone
FGDtor(s) ==
  /\ IsFG(s)
  /\ allocated' = AfterEnd(allocated, objs[s])
  /\ fault' = EndFault(allocated, objs[s])
  /\ objs' = [objs EXCEPT ![s] = NoObject]
  /\ last' = Op("release", s, 0, 0, Ends(objs[s]))
  /\ UNCHANGED <<mem, rmStats, lbStats>>

\* FileGuard::FileGuard(FileGuard&& other)
FGMoveCtor(d, o) ==
  /\ IsNewSlot(d) /\ IsFG(o)
  /\ \E nm \in MovedString(filename(o)) :
       objs' = [objs EXCEPT ![d] = Handle("FG", filename(o), is_open(o), objs[o].acq),
                            ![o] = MovedFromHandle(objs[o], nm)]
  /\ last' = Op("transfer", d, o, 0, 0)
  /\ UNCHANGED <<allocated, mem, rmStats, lbStats, fault>>

\* a move assignment that takes other's filename_ and is_open_ first and
\* calls close() afterwards
FGMoveAssignClosesLast(d, o) ==
  /\ \E nm \in MovedString(filename(o)) :
       objs' = [objs EXCEPT ![d] = Handle("FG", filename(o), FALSE, objs[o].acq),
                            ![o] = MovedFromHandle(objs[o], nm)]
  /\ allocated' = AfterEnd(allocated, objs[o])
  /\ fault' = EndFault(allocated, objs[o])
  /\ last' = Op("assign_transfer", d, o, 0, Ends(objs[o]))
  /\ UNCHANGED <<mem, rmStats, lbStats>>

\* body of FileGuard::operator=(FileGuard&&) inside the guard: close(), then
\* take other's filename_ and is_open_
FGMoveAssignBody(d, o) ==
  /\ \E nm \in MovedString(filename(o)) :
       objs' = [objs EXCEPT ![d] = Handle("FG", filename(o), is_open(o), objs[o].acq),
                            ![o] = MovedFromHandle(objs[o], nm)]
  /\ allocated' = AfterEnd(allocated, objs[d])
  /\ fault' = EndFault(allocated, objs[d])
  /\ last' = Op("assign_transfer", d, o, 0, Ends(objs[d]))
  /\ UNCHANGED <<mem, rmStats, lbStats>>

\* FileGuard& FileGuard::operator=(FileGuard&& other)
FGMoveAssign(d, o) ==
  /\ IsFG(d) /\ IsFG(o)
  /\ IF d # o THEN FGMoveAssignBody(d, o)
               ELSE SelfAssign("assign_transfer", d)

NextFG ==
  \/ \E s \in Slots, nm \in Names : FGCtor(s, nm) /\ Keep
  \/ \E s \in Slots : FGDtor(s) /\ Keep
  \/ \E d, o \in Slots : FGMoveCtor(d, o) /\ Keep
  \/ \E d, o \in Slots : FGMoveAssign(d, o) /\ Keep

\* ---- Resource and std::shared_ptr<Resource> ----
\* allocated holds the addresses of the Resource objects alive, mem[a] the
\* field id_ of the one at a, use_count[a] the owners its control block
\* records (0 for a Resource that no shared_ptr owns).

Ids == {SharedId, LocalId}

\* a std::shared_ptr<Resource> holding the Resource at a, or nothing (nullptr)
SharedPtr(a) == [cls |-> "SP", ptr |-> a]
IsSP(s) == objs[s].cls = "SP"
get(s) == objs[s].ptr

\* std::shared_ptr::use_count as a holder reads it
UseCountOf(s) == IF get(s) = nullptr THEN 0 ELSE use_count[get(s)]

\* Resource::id through a reference
id(s) == mem[get(s)][1]

\* the uncounted Resource objects: copies made by the implicit copy constructor
Uncounted == Cardinality(allocated) - instance_count_

\* the control block forgets to count the new owner
AddOwnerForgotten(uc, a) == uc

\* a shared_ptr copy: the control block of a, if any, counts one more owner
AddOwner(uc, a) == IF a = nullptr THEN uc ELSE [uc EXCEPT ![a] = uc[a] + 1]

\* the first reference released already destroys the Resource
IsLastOwnerAlways(uc, a) == a # nullptr

\* a shared_ptr is released: does it destroy the Resource it holds
IsLastOwner(uc, a) == a # nullptr /\ uc[a] = 1

DropOwner(uc, a) == IF a = nullptr THEN uc ELSE [uc EXCEPT ![a] = uc[a] - 1]

\* Resource::Resource(int id) for an object with automatic storage
ResourceCtor(v) ==
  /\ kind = "SP" /\ CanNew(allocated)
  /\ allocated' = allocated \cup {NewAddr(allocated)}
  /\ mem' = [mem EXCEPT ![NewAddr(allocated)] = <<v>>]
  /\ instance_count_' = instance_count_ + 1
  /\ last' = Op("construct", 0, 0, 0, 0)
  /\ UNCHANGED <<objs, use_count, rmStats, lbStats, fault>>

\* the implicitly declared Resource::Resource(const Resource&): copies id_ and
\* does not touch instance_count_
ResourceCopyCtor(b) ==
  /\ kind = "SP" /\ b \in allocated /\ CanNew(allocated)
  /\ allocated' = allocated \cup {NewAddr(allocated)}
  /\ mem' = [mem EXCEPT ![NewAddr(allocated)] = mem[b]]
  /\ last' = Op("copy_construct", 0, 0, 0, 0)
  /\ UNCHANGED <<objs, shared, rmStats, lbStats, fault>>

\* Resource::~Resource for an object with automatic storage
ResourceDtor(a) ==
  /\ kind = "SP" /\ a \in allocated /\ use_count[a] = 0
  /\ allocated' = allocated \ {a}
  /\ mem' = Scrub(mem, a)
  /\ instance_count_' = instance_count_ - 1
  /\ last' = Op("destroy", 0, 0, 0, 1)
  /\ UNCHANGED <<objs, use_count, rmStats, lbStats, fault>>

\* a factory whose Resource does not count itself
create_shared_resourceUncounted(s, v) ==
  /\ kind = "SP" /\ IsNewSlot(s) /\ CanNew(allocated)
  /\ LET a == NewAddr(allocated)
     IN /\ allocated' = allocated \cup {a}
        /\ mem' = [mem EXCEPT ![a] = <<v>>]
        /\ use_count' = [use_count EXCEPT ![a] = 1]
        /\ objs' = [objs EXCEPT ![s] = SharedPtr(a)]
  /\ last' = Op("create", s, 0, 0, 0)
  /\ UNCHANGED <<instance_count_, rmStats, lbStats, fault>>

\* create_shared_resource(id): std::make_shared<Resource>(id)
create_shared_resource(s, v) ==
  /\ kind = "SP" /\ IsNewSlot(s) /\ CanNew(allocated)
  /\ LET a == NewAddr(allocated)
     IN /\ allocated' = allocated \cup {a}
        /\ mem' = [mem EXCEPT ![a] = <<v>>]
        /\ instance_count_' = instance_count_ + 1
        /\ use_count' = [use_count EXCEPT ![a] = 1]
        /\ objs' = [objs EXCEPT ![s] = SharedPtr(a)]
  /\ last' = Op("create", s, 0, 0, 0)
  /\ UNCHANGED <<rmStats, lbStats, fault>>

\* std::shared_ptr<Resource> copy construction: auto resource2 = resource
SPCopyCtor(d, o) ==
  /\ IsNewSlot(d) /\ IsSP(o)
  /\ objs' = [objs EXCEPT ![d] = SharedPtr(get(o))]
  /\ use_count' = AddOwner(use_count, get(o))
  /\ last' = Op("duplicate", d, o, 0, 0)
  /\ UNCHANGED <<allocated, mem, instance_count_, rmStats, lbStats, fault>>

\* a move that leaves the source holding the Resource
SPMoveCtorKeepsSource(d, o) ==
  /\ IsNewSlot(d) /\ IsSP(o)
  /\ objs' = [objs EXCEPT ![d] = SharedPtr(get(o))]
  /\ last' = Op("transfer", d, o, 0, 0)
  /\ UNCHANGED <<allocated, mem, shared, rmStats, lbStats, fault>>

\* std::shared_ptr<Resource> move construction: auto resource2 = std::move(resource)
SPMoveCtor(d, o) ==
  /\ IsNewSlot(d) /\ IsSP(o)
  /\ objs' = [objs EXCEPT ![d] = SharedPtr(get(o)), ![o] = SharedPtr(nullptr)]
  /\ last' = Op("transfer", d, o, 0, 0)
  /\ UNCHANGED <<allocated, mem, shared, rmStats, lbStats, fault>>

\* std::shared_ptr<Resource> destruction: the last owner destroys the Resource
SPDtor(s) ==
  /\ IsSP(s)
  /\ objs' = [objs EXCEPT ![s] = NoObject]
  /\ use_count' = DropOwner(use_count, get(s))
  /\ IF IsLastOwner(use_count, get(s))
       THEN /\ allocated' = allocated \ {get(s)}
            /\ mem' = Scrub(mem, get(s))
            /\ instance_count_' = instance_count_ - 1
            /\ fault' = IF get(s) \in allocated THEN fault ELSE "double_free"
            /\ last' = Op("release", s, 0, 0, 1)
       ELSE /\ last' = Op(IF get(s) = nullptr THEN "release_empty" ELSE "release",
                          s, 0, 0, 0)
            /\ UNCHANGED <<allocated, mem, instance_count_, fault>>
  /\ UNCHANGED <<rmStats, lbStats>>

\* the calls leave the kind of run and the scenario log alone
KeepRun == UNCHANGED <<kind, script>>

NextSP ==
  \/ \E v \in Ids : ResourceCtor(v) /\ KeepRun
  \/ Uncounted < MaxCount /\ \E b \in Addr : ResourceCopyCtor(b) /\ KeepRun
  \/ \E a \in Addr : ResourceDtor(a) /\ KeepRun
  \/ \E s \in SharedSlots, v \in Ids : create_shared_resource(s, v) /\ KeepRun
  \/ \E d, o \in SharedSlots : SPCopyCtor(d, o) /\ KeepRun
  \/ \E d, o \in SharedSlots : SPMoveCtor(d, o) /\ KeepRun
  \/ \E s \in SharedSlots : SPDtor(s) /\ KeepRun

InitShared == InitOver(SharedSlots, Addr) /\ kind = "SP"

SpecShared == InitShared /\ [][NextSP]_vars

\* ---- share_resource and the std::vector it returns ----

ShareFirst == 2
ShareSecond == 3
\* the numbers of copies asked for: none, fewer than none, and the tests' two
Copies == {-1, 0, ShareFirst, ShareSecond}

\* a std::vector<std::shared_ptr<Resource>>: the pointers its elements hold
Vector(e) == [cls |-> "VEC", elems |-> e]
IsVEC(s) == objs[s].cls = "VEC"
elems(s) == objs[s].elems

\* the loop runs once more than asked
PushedOneMore(uc, a, k) ==
  LET n == IF k + 1 > 0 THEN k + 1 ELSE 0
      f[i \in 0..n] ==
        IF i = 0 THEN [uc |-> uc, elems |-> <<>>]
        ELSE [uc |-> AddOwner(f[i - 1].uc, a), elems |-> Append(f[i - 1].elems, a)]
  IN f[n]

\* for (int i = 0; i < copies; ++i) result.push_back(resource): the vector
\* built and the use counts after the loop
Pushed(uc, a, k) ==
  LET n == IF k > 0 THEN k ELSE 0
      f[i \in 0..n] ==
        IF i = 0 THEN [uc |-> uc, elems |-> <<>>]
        ELSE [uc |-> AddOwner(f[i - 1].uc, a), elems |-> Append(f[i - 1].elems, a)]
  IN f[n]

\* share_resource(resource, copies) called with the caller's reference o: the
\* parameter is a copy of o that is destroyed when the call is over
share_resource(d, o, k) ==
  /\ kind = "SP" /\ IsNewSlot(d) /\ IsSP(o)
  /\ last' = Op("share", d, o, k, 0)
  /\ LET param == AddOwner(use_count, get(o))
         result == Pushed(param, get(o), k)
     IN /\ objs' = [objs EXCEPT ![d] = Vector(result.elems)]
        /\ use_count' = DropOwner(result.uc, get(o))
  /\ UNCHANGED <<allocated, mem, instance_count_, rmStats, lbStats, fault>>

\* one element of a vector is destroyed: a shared_ptr destruction
DropElement(st, a) ==
  IF IsLastOwner(st.uc, a)
    THEN [uc |-> DropOwner(st.uc, a), al |-> st.al \ {a}, m |-> Scrub(st.m, a),
          ic |-> st.ic - 1, freed |-> st.freed + 1,
          f |-> IF a \in st.al THEN st.f ELSE "double_free"]
    ELSE [st EXCEPT !.uc = DropOwner(st.uc, a)]

\* the elements of a vector are destroyed one after the other
DropElements(e) ==
  LET f[i \in 0..Len(e)] ==
        IF i = 0 THEN [uc |-> use_count, al |-> allocated, m |-> mem,
                       ic |-> instance_count_, freed |-> 0, f |-> fault]
        ELSE DropElement(f[i - 1], e[i])
  IN f[Len(e)]

\* std::vector<std::shared_ptr<Resource>> destruction at the end of its scope
VecDtor(s) ==
  /\ IsVEC(s)
  /\ objs' = [objs EXCEPT ![s] = NoObject]
  /\ LET st == DropElements(elems(s))
     IN /\ use_count' = st.uc
        /\ allocated' = st.al
        /\ mem' = st.m
        /\ instance_count_' = st.ic
        /\ fault' = st.f
        /\ last' = Op("drop", s, 0, Len(elems(s)), st.freed)
  /\ UNCHANGED <<rmStats, lbStats>>

NextShare ==
  \/ \E s \in SharedSlots, v \in Ids : create_shared_resource(s, v) /\ KeepRun
  \/ \E d, o \in SharedSlots, k \in Copies : share_resource(d, o, k) /\ KeepRun
  \/ \E s \in SharedSlots : SPDtor(s) /\ KeepRun
  \/ \E s \in SharedSlots : VecDtor(s) /\ KeepRun

SpecShare == InitShared /\ [][NextShare]_vars

Next == NextRM \/ NextLB \/ NextMO \/ NextFG

Spec == Init /\ [][Next]_vars

\* ---- scenarios: the calls made since the counters were last reset ----

Call(name, d, o, n) == [op |-> name, dst |-> d, src |-> o, n |-> n]
Made(name) == \E i \in 1..Len(script) : script[i].op = name

\* make a call of a kind not made since the reset, and note it
Log(name, d, o, n) ==
  /\ ~Made(name)
  /\ script' = Append(script, Call(name, d, o, n))
  /\ UNCHANGED <<kind, shared>>

InitCount == InitWith(ScenarioSlots) /\ kind \in {"RM", "LB"}

NextCount ==
  \/ kind = "RM" /\ reset_stats /\ script' = <<>> /\ UNCHANGED <<kind, shared>>
  \/ kind = "LB" /\ reset_counts /\ script' = <<>> /\ UNCHANGED <<kind, shared>>
  \/ \E s \in ScenarioSlots : RMDefaultCtor(s) /\ Log("create", s, 0, 0)
  \/ \E s \in ScenarioSlots, n \in ScenarioLens : RMSizeCtor(s, n) /\ Log("create", s, 0, n)
  \/ \E d, o \in ScenarioSlots : RMCopyCtor(d, o) /\ Log("duplicate", d, o, 0)
  \/ \E d, o \in ScenarioSlots : RMMoveCtor(d, o) /\ Log("transfer", d, o, 0)
  \/ \E s \in ScenarioSlots : RMDtor(s) /\ Log("release", s, 0, 0)
  \/ \E s \in ScenarioSlots, n \in ScenarioLens : LBCtor(s, n) /\ Log("create", s, 0, n)
  \/ \E d, o \in ScenarioSlots : LBCopyCtor(d, o) /\ Log("duplicate", d, o, 0)
  \/ \E d, o \in ScenarioSlots : LBMoveCtor(d, o) /\ Log("transfer", d, o, 0)
  \/ \E s \in ScenarioSlots : LBDtor(s) /\ Log("release", s, 0, 0)

SpecCount == InitCount /\ [][NextCount]_vars

\* ---- properties ----

\* the elements an object holds
Contents(s) == IF data(s) \in DOMAIN mem THEN mem[data(s)] ELSE <<>>

Heap == <<allocated, mem>>

\* C1: no buffer is given back twice, and once every instance is destroyed
\* every buffer that was allocated has been given back
NoDoubleFreeNoLeak ==
  /\ fault # "double_free"
  /\ Live = {} => allocated = {}

AllReleased ==
  /\ Live = {}
  /\ last.op = "release" /\ last.freed = 1

\* C2: move construction of b from a leaves a empty (length 0, no buffer) and
\* gives b a's former length and a's former storage; the heap is untouched
TransferPost(d, o) ==
  /\ objs'[o].size_ = 0 /\ objs'[o].data_ = nullptr
  /\ objs'[d].size_ = objs[o].size_
  /\ objs'[d].data_ = objs[o].data_
  /\ Heap' = Heap

TransferMovesStorage ==
  [][\A d, o \in Slots :
       (RMMoveCtor(d, o) \/ LBMoveCtor(d, o)) => TransferPost(d, o)]_vars

Transferred ==
  /\ last.op = "transfer"
  /\ \E d, o \in Slots :
       /\ d # o /\ ~IsDead(o)
       /\ size(d) = MaxLen /\ is_valid(d)
       /\ size(o) = 0 /\ ~is_valid(o)

\* C3: copy construction of b from a gives b a's length and equal elements in
\* storage of its own and leaves a as it was; storing into one object changes
\* no other object
DuplicatePost(d, o) ==
  /\ objs'[d].size_ = objs[o].size_
  /\ Contents(d)' = Contents(o)
  /\ objs[o].size_ > 0 => objs'[d].data_ # nullptr
  /\ objs'[d].data_ # nullptr =>
       /\ objs'[d].data_ # objs[o].data_
       /\ objs'[d].data_ \notin allocated
       /\ objs'[d].data_ \in allocated'
  /\ objs'[o] = objs[o]
  /\ Contents(o)' = Contents(o)

OthersKept(s) ==
  \A t \in Slots \ {s} : objs'[t] = objs[t] /\ Contents(t)' = Contents(t)

DuplicateIsIndependent ==
  [][/\ \A d, o \in Slots :
          (RMCopyCtor(d, o) \/ LBCopyCtor(d, o)) => DuplicatePost(d, o)
     /\ \A s \in Slots, v \in Values :
          (fill(s, v) \/ RMWrite(s, v)) => OthersKept(s)]_vars

DuplicateThenMutated ==
  /\ last.op \in {"fill", "write"}
  /\ copy_constructions_ + copy_count_ >= 1
  /\ \E a, b \in Slots :
       /\ a # b /\ is_valid(a) /\ is_valid(b)
       /\ size(a) = MaxLen /\ size(b) = MaxLen
       /\ Contents(a) # Contents(b)

\* C4: a live ResourceManager has size() > 0 exactly when it holds a buffer,
\* the buffer has size() elements, and with size() = 0 it holds none
RMShape(s) ==
  /\ size(s) > 0 <=> is_valid(s)
  /\ is_valid(s) => data(s) \in allocated /\ Len(mem[data(s)]) = size(s)
  /\ size(s) = 0 => data(s) = nullptr

RMSizeMatchesBuffer == \A s \in Slots : IsRM(s) => RMShape(s)

RMAfterAssignTransfer ==
  /\ last.op = "assign_transfer" /\ ~last.self
  /\ \E d, o \in Slots :
       /\ IsRM(d) /\ IsRM(o)
       /\ size(d) = MaxLen /\ is_valid(d)
       /\ size(o) = 0

\* C5: ResourceManager(n) gives length n and n zero elements, holds storage
\* when n > 0, and for n = 0 gives the empty state without any fault
CreatePost(s, n) ==
  /\ objs'[s].cls = "RM"
  /\ objs'[s].size_ = n
  /\ Contents(s)' = [i \in 1..n |-> 0]
  /\ n > 0 => objs'[s].data_ \in allocated' \ allocated
  /\ n = 0 => objs'[s].data_ = nullptr /\ allocated' = allocated
  /\ fault' = fault

CreateGivesZeros ==
  [][\A s \in Slots, n \in Lens : RMSizeCtor(s, n) => CreatePost(s, n)]_vars

CreatedBoth ==
  /\ kind = "RM" /\ last.op = "create" /\ last.n = 0
  /\ \E s, t \in Slots :
       /\ size(s) = MaxLen /\ is_valid(s) /\ Contents(s) = Zeros(MaxLen)
       /\ IsRM(t) /\ size(t) = 0 /\ ~is_valid(t)

\* C6: assigning an object to itself, by copy or by move, changes neither its
\* length, its storage nor its elements and gives no buffer back
SelfAssignKeeps ==
  [][\A a \in Slots :
       (RMCopyAssign(a, a) \/ RMMoveAssign(a, a) \/
        LBCopyAssign(a, a) \/ LBMoveAssign(a, a))
       => /\ objs' = objs
          /\ Heap' = Heap
          /\ last'.freed = 0
          /\ fault' = fault]_vars

SelfAssigned ==
  /\ last.self /\ last.op \in {"assign_duplicate", "assign_transfer"}
  /\ \E s \in Slots : is_valid(s) /\ size(s) = MaxLen

\* C7: move assignment between distinct objects gives back the buffer dest
\* held, once; dest then has source's former storage and length and source is
\* empty
AssignTransferPost(d, o) ==
  /\ last'.freed = Freed(objs[d].data_)
  /\ allocated' = allocated \ {objs[d].data_}
  /\ objs'[d].data_ = objs[o].data_
  /\ objs'[d].size_ = objs[o].size_
  /\ objs'[o].size_ = 0 /\ objs'[o].data_ = nullptr
  /\ fault' = fault

AssignTransferReleasesOld ==
  [][\A d, o \in Slots :
       (d # o /\ (RMMoveAssign(d, o) \/ LBMoveAssign(d, o)))
       => AssignTransferPost(d, o)]_vars

AssignTransferred ==
  /\ last.op = "assign_transfer" /\ ~last.self /\ last.freed = 1
  /\ \E d, o \in Slots :
       /\ d # o /\ ~IsDead(o)
       /\ is_valid(d) /\ size(d) = MaxLen
       /\ ~is_valid(o) /\ size(o) = 0

\* C8: copy assignment between distinct objects gives back the buffer dest
\* held; dest then has source's length and equal elements in storage that is
\* not source's, and source is as it was
AssignDuplicatePost(d, o) ==
  /\ last'.freed = Freed(objs[d].data_)
  /\ allocated' = (allocated \ {objs[d].data_}) \cup ({objs'[d].data_} \ {nullptr})
  /\ objs'[d].size_ = objs[o].size_
  /\ Contents(d)' = Contents(o)
  /\ objs'[d].data_ # nullptr => objs'[d].data_ # objs[o].data_
  /\ objs'[o] = objs[o]
  /\ Contents(o)' = Contents(o)
  /\ fault' = fault

AssignDuplicateCopies ==
  [][\A d, o \in Slots :
       (d # o /\ (RMCopyAssign(d, o) \/ LBCopyAssign(d, o)))
       => AssignDuplicatePost(d, o)]_vars

AssignDuplicated ==
  /\ last.op = "assign_duplicate" /\ ~last.self /\ last.freed = 1
  /\ \E d, o \in Slots :
       /\ d # o /\ is_valid(d) /\ is_valid(o) /\ data(d) # data(o)
       /\ size(d) = MaxLen /\ size(o) = MaxLen
       /\ Contents(d) = Contents(o)
       /\ Contents(o)[1] = FillValue

\* the constructions made since the reset, releases left out
IsConstruction(c) == c.op # "release"
Calls == SelectSeq(script, IsConstruction)

OneOfEach ==
  /\ Len(Calls) = 3
  /\ Made("create") /\ Made("duplicate") /\ Made("transfer")

\* create(100), a duplicate of it, then a transfer out of the original (or,
\* as in the CounterTracking test, out of the duplicate), nothing released
CreateDuplicateTransfer ==
  /\ script = Calls /\ Len(Calls) = 3
  /\ Calls[1].op = "create" /\ Calls[1].n = ScenarioLen
  /\ Calls[2].op = "duplicate" /\ Calls[2].src = Calls[1].dst
  /\ Calls[3].op = "transfer" /\ Calls[3].src \in {Calls[1].dst, Calls[2].dst}

\* C9: after a reset, one create, one duplicate and one transfer in any order
\* leave each of the counters that count them at 1; after create(100),
\* duplicate, transfer the destination has length 100 and the source length 0
OneOfEachCountsOnce ==
  /\ OneOfEach =>
       /\ kind = "RM" =>
            /\ default_constructions_ = 1
            /\ copy_constructions_ = 1
            /\ move_constructions_ = 1
       /\ kind = "LB" => copy_count_ = 1 /\ move_count_ = 1
  /\ CreateDuplicateTransfer =>
       /\ size(Calls[3].dst) = ScenarioLen
       /\ size(Calls[3].src) = 0

ScenarioDone ==
  /\ CreateDuplicateTransfer /\ OneOfEach
  /\ Calls[3].src = Calls[1].dst
  /\ last.op = "transfer"
  /\ size(Calls[3].dst) = ScenarioLen
  /\ is_valid(Calls[2].dst)

\* C10: a reset zeroes every counter of its class and touches no instance
ResetPost ==
  /\ reset_stats =>
       /\ default_constructions_' = 0 /\ copy_constructions_' = 0
       /\ move_constructions_' = 0 /\ destructions_' = 0
       /\ objs' = objs /\ Heap' = Heap
  /\ reset_counts =>
       /\ copy_count_' = 0 /\ move_count_' = 0
       /\ objs' = objs /\ Heap' = Heap

ResetZeroesCounters == [][ResetPost]_vars

ResetWithLiveInstances ==
  /\ last.op = "reset"
  /\ default_constructions_ + copy_constructions_ = 0
  /\ move_constructions_ + destructions_ = 0
  /\ copy_count_ + move_count_ = 0
  /\ \E s, t \in Slots :
       /\ s # t /\ is_valid(s) /\ size(s) = MaxLen
       /\ ~IsDead(t) /\ ~is_valid(t)

\* C11: a move out of a valid handle, by construction or by assignment to
\* another handle, leaves the source invalid and the destination valid under
\* the name the source had
HandleTransferPost(d, o) ==
  objs[o].valid_ =>
    /\ ~objs'[o].valid_
    /\ objs'[d].valid_
    /\ objs'[d].name_ = objs[o].name_

HandleTransferMovesValidity ==
  [][\A d, o \in Slots :
       (d # o /\ (MOMoveCtor(d, o) \/ MOMoveAssign(d, o) \/
                  FGMoveCtor(d, o) \/ FGMoveAssign(d, o)))
       => HandleTransferPost(d, o)]_vars

HandleTransferred ==
  /\ last.op = "transfer"
  /\ \E d, o \in Slots :
       /\ d # o /\ IsHandle(d) /\ IsHandle(o)
       /\ is_open(d) /\ filename(d) \in Names
       /\ ~is_open(o)

\* the live handles that are valid for acquisition a
ValidFor(a) == {s \in DOMAIN objs : IsHandle(s) /\ is_open(s) /\ objs[s].acq = a}

\* C12: in every reachable state each acquisition has at most one live valid
\* handle, and a valid handle's resource has not been given back
OneValidHandlePerAcquisition ==
  \A a \in DOMAIN mem :
    /\ Cardinality(ValidFor(a)) <= 1
    /\ ValidFor(a) # {} => a \in allocated

HandleAssignedOver ==
  /\ last.op = "assign_transfer" /\ ~last.self /\ last.freed = 1
  /\ \E d, o \in Slots :
       /\ d # o /\ IsHandle(d) /\ IsHandle(o)
       /\ objs[d].acq = objs[o].acq
       /\ is_open(d) /\ ~is_open(o)

\* C14: destroying a handle gives its resource back when the handle is valid
\* and leaves no valid handle for it; on an invalid (moved-from) handle it
\* gives nothing back and changes nothing else; no resource is given back twice
HandleReleasePost(s) ==
  /\ objs'[s] = NoObject
  /\ \A t \in Slots \ {s} : objs'[t] = objs[t]
  /\ fault' = fault
  /\ IF objs[s].valid_
       THEN /\ last'.freed = 1
            /\ objs[s].acq \in allocated
            /\ allocated' = allocated \ {objs[s].acq}
            /\ \A t \in Slots :
                 ~(/\ objs'[t].cls \in {"MO", "FG"}
                   /\ objs'[t].valid_
                   /\ objs'[t].acq = objs[s].acq)
       ELSE /\ last'.freed = 0
            /\ allocated' = allocated

HandleReleaseIdempotent ==
  [][\A s \in Slots : (MODtor(s) \/ FGDtor(s)) => HandleReleasePost(s)]_vars

MovedFromHandleReleased ==
  /\ last.op = "release" /\ last.freed = 0
  /\ kind \in {"MO", "FG"}
  /\ allocated # {}
  /\ \E t \in Slots : IsHandle(t) /\ is_open(t)

\* C15: the live-instance counter equals the number of Resource objects
\* constructed and not yet destroyed, whatever the number of references to
\* them, and is never negative
InstanceCountIsLiveResources ==
  /\ instance_count_ = Cardinality(allocated)
  /\ instance_count_ >= 0

\* the other live references to the Resource that reference s holds
OtherOwners(s) == {t \in DOMAIN objs \ {s} : IsSP(t) /\ get(t) = get(s)}

\* C16: releasing one of the k+1 references to a Resource leaves the
\* live-instance counter and the Resource alone while another reference is
\* left, and the release of the last one destroys the Resource and takes
\* exactly 1 off the counter
SharedReleasePost(s) ==
  get(s) # nullptr =>
    /\ use_count[get(s)] = Cardinality(OtherOwners(s)) + 1
    /\ IF OtherOwners(s) # {}
         THEN /\ instance_count_' = instance_count_
              /\ get(s) \in allocated'
              /\ mem'[get(s)] = mem[get(s)]
              /\ last'.freed = 0
         ELSE /\ instance_count_' = instance_count_ - 1
              /\ get(s) \in allocated /\ get(s) \notin allocated'
              /\ last'.freed = 1

LastReleaseDestroys ==
  [][\A s \in SharedSlots : SPDtor(s) => SharedReleasePost(s)]_vars

SharedReleasedNotLast ==
  /\ last.op = "release" /\ last.freed = 0
  /\ instance_count_ = 1
  /\ \E s \in SharedSlots :
       /\ IsSP(s) /\ get(s) # nullptr /\ id(s) = SharedId
       /\ UseCountOf(s) = NSlots
       /\ Cardinality(OtherOwners(s)) = NSlots - 1

\* C17: create_shared_resource(id) makes a new Resource whose id() is id, adds
\* exactly 1 to the live-instance counter and returns a reference whose
\* use_count() is 1
CreateSharedPost(s, v) ==
  /\ objs'[s].cls = "SP"
  /\ objs'[s].ptr \in allocated' \ allocated
  /\ mem'[objs'[s].ptr] = <<v>>
  /\ use_count'[objs'[s].ptr] = 1
  /\ instance_count_' = instance_count_ + 1
  /\ \A t \in SharedSlots \ {s} : objs'[t] = objs[t]

CreateSharedCountsOne ==
  [][\A s \in SharedSlots, v \in Ids :
       create_shared_resource(s, v) => CreateSharedPost(s, v)]_vars

SharedCreated ==
  /\ last.op = "create"
  /\ instance_count_ = 1
  /\ \E s \in SharedSlots :
       IsSP(s) /\ get(s) # nullptr /\ id(s) = SharedId /\ UseCountOf(s) = 1

\* C18: copying a non-empty reference gives a reference to the same Resource,
\* every holder of it then reads a use_count() 1 higher, and the
\* live-instance counter and the Resource objects are unchanged
DuplicateReferencePost(d, o) ==
  get(o) # nullptr =>
    /\ objs'[d] = SharedPtr(get(o))
    /\ objs'[o] = objs[o]
    /\ \A t \in SharedSlots :
         (objs'[t].cls = "SP" /\ objs'[t].ptr = get(o))
           => use_count'[objs'[t].ptr] = use_count[get(o)] + 1
    /\ instance_count_' = instance_count_
    /\ Heap' = Heap

DuplicateReferenceAddsOne ==
  [][\A d, o \in SharedSlots :
       SPCopyCtor(d, o) => DuplicateReferencePost(d, o)]_vars

ReferenceDuplicated ==
  /\ last.op = "duplicate"
  /\ instance_count_ = 1
  /\ \E s, t \in SharedSlots :
       /\ s # t /\ IsSP(s) /\ IsSP(t)
       /\ get(s) # nullptr /\ get(s) = get(t)
       /\ UseCountOf(s) = 2 /\ UseCountOf(t) = 2

\* C19: moving a reference changes no use count and not the live-instance
\* counter, gives the new holder the Resource and leaves the source empty
\* with use_count() 0; releasing an empty reference changes nothing but the
\* reference itself
TransferReferencePost(d, o) ==
  /\ use_count' = use_count
  /\ instance_count_' = instance_count_
  /\ Heap' = Heap
  /\ objs'[d] = SharedPtr(get(o))
  /\ objs'[o] = SharedPtr(nullptr)
  /\ UseCountOf(o)' = 0

ReleaseEmptyPost(s) ==
  get(s) = nullptr =>
    /\ use_count' = use_count
    /\ instance_count_' = instance_count_
    /\ Heap' = Heap
    /\ \A t \in SharedSlots \ {s} : objs'[t] = objs[t]

TransferReferenceKeepsCounts ==
  [][/\ \A d, o \in SharedSlots : SPMoveCtor(d, o) => TransferReferencePost(d, o)
     /\ \A s \in SharedSlots : SPDtor(s) => ReleaseEmptyPost(s)]_vars

EmptyReferenceReleased ==
  /\ last.op = "release_empty"
  /\ instance_count_ = 1
  /\ \E d \in SharedSlots :
       IsSP(d) /\ get(d) # nullptr /\ UseCountOf(d) = 1 /\ OtherOwners(d) = {}

\* a buffer that has been moved from, and a handle that has been moved from
IsMovedFromBuffer(s) == (IsRM(s) \/ IsLB(s)) /\ data(s) = nullptr /\ size(s) = 0
IsMovedFromHandle(s) == IsHandle(s) /\ ~is_open(s)

\* after the step, slot s holds nothing or an empty buffer of length 0
InertBufferAfter(s) ==
  /\ objs'[s].size_ = 0
  /\ objs'[s].data_ \in DOMAIN mem' => mem'[objs'[s].data_] = <<>>
\* after the step, slot s holds nothing or a handle that is not valid
InertHandleAfter(s) ==
  objs'[s].cls \in {"MO", "FG"} => ~objs'[s].valid_

\* the step read and wrote only live storage and released nothing twice
Defined == fault' = "none"

\* C20: every operation applied to a moved-from instance is defined (no
\* absent or freed storage is read or written, nothing is released a second
\* time) and the moved-from instance and what is made from it are inert: a
\* buffer of length 0 with no elements, a handle that is not valid
OnMovedFromBufferPost(d, o) ==
  /\ (RMCopyCtor(d, o) \/ LBCopyCtor(d, o) \/ RMMoveCtor(d, o) \/ LBMoveCtor(d, o))
       => /\ Defined /\ InertBufferAfter(d) /\ InertBufferAfter(o)
          /\ allocated \subseteq allocated' /\ last'.freed = 0
  /\ (RMCopyAssign(d, o) \/ LBCopyAssign(d, o) \/ RMMoveAssign(d, o) \/ LBMoveAssign(d, o))
       => /\ Defined /\ InertBufferAfter(d) /\ InertBufferAfter(o)
          /\ allocated \ allocated' \subseteq {data(d)}
          /\ last'.freed = Freed(data(d))
  /\ (RMCopyAssign(o, d) \/ LBCopyAssign(o, d) \/ RMMoveAssign(o, d) \/ LBMoveAssign(o, d))
       => /\ Defined
          /\ allocated \subseteq allocated' /\ last'.freed = 0
  /\ (d = o /\ \E v \in Values : fill(o, v))
       => /\ Defined /\ InertBufferAfter(o)
          /\ Heap' = Heap /\ objs' = objs
  /\ (d = o /\ (RMDtor(o) \/ LBDtor(o)))
       => /\ Defined /\ Heap' = Heap /\ last'.freed = 0

OnMovedFromHandlePost(d, o) ==
  /\ (MOMoveCtor(d, o) \/ FGMoveCtor(d, o))
       => /\ Defined /\ InertHandleAfter(d) /\ InertHandleAfter(o)
          /\ allocated' = allocated /\ last'.freed = 0
  /\ (MOMoveAssign(d, o) \/ FGMoveAssign(d, o))
       => /\ Defined /\ InertHandleAfter(d) /\ InertHandleAfter(o)
          /\ allocated \ allocated' \subseteq {objs[d].acq}
  /\ (d = o /\ (MODtor(o) \/ FGDtor(o)))
       => /\ Defined /\ allocated' = allocated /\ last'.freed = 0

MovedFromIsInert ==
  [][\A d, o \in Slots :
       /\ IsMovedFromBuffer(o) => OnMovedFromBufferPost(d, o)
       /\ IsMovedFromHandle(o) => OnMovedFromHandlePost(d, o)]_vars

MovedFromBufferReleased ==
  /\ kind = "LB"
  /\ last.op = "release" /\ last.freed = 0
  /\ move_count_ > 0
  /\ \E s \in Slots : IsLB(s) /\ size(s) = MaxLen /\ data(s) \in allocated

\* C21: every LargeBuffer of length 0 holds no buffer, whether it was created
\* with length 0, duplicated from an empty or moved-from buffer, or moved from
EmptyLargeBufferHoldsNothing ==
  \A s \in Slots : (IsLB(s) /\ size(s) = 0) => data(s) = nullptr

\* the references slot s holds to the Resource at a
HeldBy(s, a) ==
  IF objs[s].cls = "SP" THEN (IF objs[s].ptr = a THEN 1 ELSE 0)
  ELSE IF objs[s].cls = "VEC"
    THEN Cardinality({i \in 1..Len(objs[s].elems) : objs[s].elems[i] = a})
  ELSE 0

\* C22: share_resource(resource, k) returns exactly k references, all to the
\* Resource that resource holds (none for k <= 0); after the call the use
\* count of that Resource is k higher (unchanged for k <= 0) and the
\* live-instance counter and the Resource objects are unchanged; dropping the
\* returned collection takes exactly its k references off again
SharePost(d, o, k) ==
  LET n == IF k > 0 THEN k ELSE 0
  IN /\ objs'[d].cls = "VEC"
     /\ Len(objs'[d].elems) = n
     /\ \A i \in 1..n : objs'[d].elems[i] = get(o)
     /\ objs'[o] = objs[o]
     /\ get(o) # nullptr =>
          /\ use_count'[get(o)] = use_count[get(o)] + n
          /\ \A a \in Addr \ {get(o)} : use_count'[a] = use_count[a]
     /\ get(o) = nullptr => use_count' = use_count
     /\ instance_count_' = instance_count_
     /\ Heap' = Heap

DropPost(s) ==
  \A a \in Addr :
    IF HeldBy(s, a) > 0 /\ use_count[a] = HeldBy(s, a)
      THEN /\ a \in allocated /\ a \notin allocated'
           /\ use_count'[a] = 0
      ELSE /\ use_count'[a] = use_count[a] - HeldBy(s, a)
           /\ (a \in allocated') = (a \in allocated)

ShareAddsCopies ==
  [][/\ last'.op = "share" =>
          \A d, o \in SharedSlots, k \in Copies :
            share_resource(d, o, k) => SharePost(d, o, k)
     /\ last'.op = "drop" =>
          \A s \in SharedSlots : VecDtor(s) => DropPost(s)]_vars

SharedTwoThenThree ==
  /\ last.op = "share" /\ last.n = ShareSecond
  /\ instance_count_ = 1
  /\ \E r, s, t \in SharedSlots :
       /\ IsSP(r) /\ get(r) # nullptr /\ UseCountOf(r) = 1 + ShareFirst + ShareSecond
       /\ IsVEC(s) /\ Len(elems(s)) = ShareFirst
       /\ IsVEC(t) /\ Len(elems(t)) = ShareSecond

\* C23: FileGuard move assignment between distinct guards closes the file the
\* destination holds, then gives the destination the source's filename and
\* open state and marks the source not open; with both open before, exactly
\* the destination is open afterwards, under the source's filename
GuardAssignPost(d, o) ==
  /\ is_open(d) => (objs[d].acq \in allocated /\ objs[d].acq \notin allocated')
  /\ last'.freed = Ends(objs[d])
  /\ objs'[d].cls = "FG" /\ objs'[o].cls = "FG"
  /\ objs'[d].name_ = filename(o)
  /\ objs'[d].valid_ = is_open(o)
  /\ ~objs'[o].valid_
  /\ (is_open(d) /\ is_open(o)) =>
       /\ {s \in {d, o} : objs'[s].valid_} = {d}
       /\ objs'[d].acq = objs[o].acq
       /\ objs'[d].acq \in allocated'

GuardAssignClosesThenTakes ==
  [][\A d, o \in Slots :
       (d # o /\ FGMoveAssign(d, o)) => GuardAssignPost(d, o)]_vars

GuardAssignedBothOpen ==
  /\ kind = "FG"
  /\ last.op = "assign_transfer" /\ last.freed = 1 /\ ~last.self
  /\ Cardinality(allocated) = 1
  /\ \E d, o \in Slots :
       /\ d # o /\ IsFG(d) /\ IsFG(o)
       /\ is_open(d) /\ ~is_open(o)
       /\ objs[d].acq \in allocated

\* C24: process_copy called with the caller's buffer makes exactly one copy
\* and one move, leaves the caller's buffer with its length and elements and
\* returns a buffer of the same length in storage of its own; process_move
\* called with a transferred buffer makes no copy, leaves the caller's buffer
\* empty with length 0 and returns a buffer of the length it had
ProcessCopyPost(d, o) ==
  /\ copy_count_' = copy_count_ + 1
  /\ move_count_' = move_count_ + 1
  /\ objs'[o] = objs[o]
  /\ data(o) \in DOMAIN mem => mem'[data(o)] = mem[data(o)]
  /\ objs'[d].cls = "LB" /\ objs'[d].size_ = size(o)
  /\ objs'[d].data_ # data(o) /\ objs'[d].data_ \in allocated' \ allocated
  /\ mem'[objs'[d].data_] = Filled(size(o), CopyFill)

ProcessMovePost(d, o) ==
  /\ copy_count_' = copy_count_
  /\ objs'[o].size_ = 0 /\ objs'[o].data_ = nullptr
  /\ objs'[d].cls = "LB" /\ objs'[d].size_ = size(o)
  /\ allocated' = allocated

ProcessCopiesOrMoves ==
  [][\A d, o \in Slots :
       /\ process_copy(d, o) => ProcessCopyPost(d, o)
       /\ process_move(d, o) => ProcessMovePost(d, o)]_vars

ProcessedByCopy ==
  /\ kind = "LB"
  /\ last.op = "process_copy" /\ last.n = MaxLen
  /\ copy_count_ = 1 /\ move_count_ = 1
  /\ \E d, o \in Slots :
       /\ d # o /\ IsLB(d) /\ IsLB(o) /\ data(d) # data(o)
       /\ size(o) = MaxLen /\ Contents(o) = Filled(MaxLen, FillValue)
       /\ size(d) = MaxLen /\ Contents(d) = Filled(MaxLen, CopyFill)

\* C25: destroying an instance changes no duplication or transfer counter,
\* and on every step that is not a reset no counter decreases
CountersKeptPost ==
  /\ \A s \in Slots : LBDtor(s) => lbStats' = lbStats
  /\ \A s \in Slots :
       RMDtor(s) => /\ default_constructions_' = default_constructions_
                    /\ copy_constructions_' = copy_constructions_
                    /\ move_constructions_' = move_constructions_
  /\ ~(reset_stats \/ reset_counts) =>
       /\ copy_count_' >= copy_count_
       /\ move_count_' >= move_count_
       /\ default_constructions_' >= default_constructions_
       /\ copy_constructions_' >= copy_constructions_
       /\ move_constructions_' >= move_constructions_
       /\ destructions_' >= destructions_

DestructionKeepsCounters == [][CountersKeptPost]_vars

CountedInstancesGone ==
  /\ kind = "LB"
  /\ last.op = "release"
  /\ copy_count_ = 1 /\ move_count_ = 1
  /\ Live = {} /\ allocated = {}

\* the live ResourceManager / LargeBuffer instances whose data_ is a
OwnersOf(a) == {s \in Slots : (IsRM(s) \/ IsLB(s)) /\ data(s) = a}

\* C26: no element buffer is held by two live ResourceManager / LargeBuffer
\* instances, whatever duplications, transfers and assignments were made
OneOwnerPerBuffer ==
  \A a \in Addr : Cardinality(OwnersOf(a)) <= 1

TwoOwnersTwoBuffers ==
  /\ kind = "LB"
  /\ last.op = "assign_duplicate" /\ ~last.self /\ last.freed = 1
  /\ \E d, o \in Slots :
       /\ d # o /\ IsLB(d) /\ IsLB(o)
       /\ size(d) = MaxLen /\ size(o) = MaxLen
       /\ OwnersOf(data(d)) = {d} /\ OwnersOf(data(o)) = {o}
       /\ allocated = {data(d), data(o)}

\* C27: from a reset made while no ResourceManager is alive on, destructions
\* never exceed the constructions of the three kinds together, the difference
\* is the number of live instances (moved-from and empty ones included), and
\* the two are equal once every instance has been destroyed
DestructionsBalanceConstructions ==
  /\ destructions_ <= Constructed
  /\ Constructed - destructions_ = Cardinality(Live)
  /\ Live = {} => destructions_ = Constructed

AllDestroyedAfterTransfer ==
  /\ last.op = "release" /\ last.freed = 0
  /\ Live = {}
  /\ default_constructions_ = 1 /\ copy_constructions_ = 1
  /\ move_constructions_ = 1 /\ destructions_ = 3

\* C28: neither assignment form of ResourceManager, to itself or to another
\* instance, changes any of the four statistics counters
AssignmentsUncounted ==
  [][\A d, o \in Slots :
       (RMCopyAssign(d, o) \/ RMMoveAssign(d, o)) => rmStats' = rmStats]_vars

AssignedDuplicateUncounted ==
  /\ kind = "RM"
  /\ last.op = "assign_duplicate" /\ ~last.self
  /\ default_constructions_ = 2
  /\ copy_constructions_ = 0 /\ move_constructions_ = 0 /\ destructions_ = 0
  /\ \E d, o \in Slots :
       /\ d # o /\ IsRM(d) /\ IsRM(o) /\ data(d) # data(o)
       /\ size(d) = MaxLen /\ Contents(d) = Contents(o)
       /\ Contents(d)[1] = FillValue

\* the valid handles before a step and after it
ValidHandles == {s \in Slots : IsHandle(s) /\ is_open(s)}
ValidHandlesAfter ==
  {s \in Slots : objs'[s].cls \in {"MO", "FG"} /\ objs'[s].valid_}

\* C29: a transfer out of a handle that is not valid, by construction or by
\* assignment, leaves the destination not valid, also when the destination
\* was valid before, and no transfer raises the number of valid handles
InvalidTransferPost(d, o) ==
  /\ ~is_open(o) => (d \notin ValidHandlesAfter /\ o \notin ValidHandlesAfter)
  /\ Cardinality(ValidHandlesAfter) <= Cardinality(ValidHandles)

TransferPropagatesValidity ==
  [][\A d, o \in Slots :
       (MOMoveCtor(d, o) \/ MOMoveAssign(d, o) \/ FGMoveCtor(d, o) \/ FGMoveAssign(d, o))
         => InvalidTransferPost(d, o)]_vars

InvalidAssignedOverValid ==
  /\ kind = "MO"
  /\ last.op = "assign_transfer" /\ ~last.self /\ last.freed = 1
  /\ ValidHandles = {}
  /\ \A s \in Slots : IsMO(s)

====
